---- MODULE Spec2Model ----
(***************************************************************************)
(* The product routes of src/src/routes/productList.js: a read-through     *)
(* Redis cache in front of a PostgreSQL products table.  Every handler is  *)
(* a request process that advances one awaited adapter call at a time, so  *)
(* requests interleave exactly at the handler's await points.              *)
(***************************************************************************)
EXTENDS Integers, Sequences, FiniteSets, TLC

VARIABLES
    table,      \* products table: id -> row, for the ids that have a row
    nextId,     \* next value of the SERIAL sequence behind products.id
    cache,      \* Redis: key -> [value, ttl, age], for the keys that exist
    storeUp,    \* FALSE while PostgreSQL answers every query with an error
    cacheUp,    \* FALSE while Redis answers every command with an error
    req,        \* the request served in each slot: its handler position and locals
    log,        \* the last two responses sent, oldest first
    expired,    \* TRUE when a key reached its TTL since the last response
    served,     \* number of requests that have arrived
    held,       \* history: id -> every row the table has held for that id
    listed,     \* history: every listing SELECT ... ORDER BY id has had
    boot        \* index.js: how far the start of the process has come

vars == <<table, nextId, cache, storeUp, cacheUp, req, log, expired, served, held,
          listed, boot>>

-----------------------------------------------------------------------------
(* Bounds of the model *)

\* number of requests that can be in flight together
MaxReqs == 2
\* number of requests a behaviour serves
MaxRequests == 3
\* the SERIAL sequence stops handing out ids after MaxId
MaxId == 6
\* time advances in steps of DefaultTTL \div TicksPerTTL seconds
TicksPerTTL == 2

(* Program constants *)

\* cacheSet's default expirationInSeconds
DefaultTTL == 3600
\* connectWithRetry's default retries and delay (milliseconds)
DefaultRetries == 3
DefaultDelay == 1000
Slots == 1..MaxReqs

-----------------------------------------------------------------------------
(* Strings.  A path parameter and a cache key are sequences of characters, *)
(* so that parseInt, the template literal and PostgreSQL's integer input   *)
(* each do their own conversion.                                           *)

DigitChars == <<"0", "1", "2", "3", "4", "5", "6", "7", "8", "9">>

IsDigit(ch) == \E i \in 1..10 : DigitChars[i] = ch

DigitVal(ch) == (CHOOSE i \in 1..10 : DigitChars[i] = ch) - 1

IsSpace(ch) == ch = " "

RECURSIVE SkipSpaces(_)
SkipSpaces(s) ==
    IF s /= <<>> /\ IsSpace(Head(s)) THEN SkipSpaces(Tail(s)) ELSE s

\* the longest prefix of digits of s, read as a decimal number (acc so far)
RECURSIVE DigitPrefix(_, _, _)
DigitPrefix(s, acc, n) ==
    IF s /= <<>> /\ IsDigit(Head(s))
    THEN DigitPrefix(Tail(s), acc * 10 + DigitVal(Head(s)), n + 1)
    ELSE [value |-> acc, digits |-> n, rest |-> s]

\* parseInt(str, 10): leading white space, an optional sign, then as many
\* digits as there are; whatever follows them is ignored; NaN without a digit
parseInt(str) ==
    LET s    == SkipSpaces(str)
        neg  == s /= <<>> /\ Head(s) = "-"
        body == IF s /= <<>> /\ Head(s) \in {"-", "+"} THEN Tail(s) ELSE s
        d    == DigitPrefix(body, 0, 0)
    IN  IF d.digits = 0
        THEN [nan |-> TRUE, n |-> 0]
        ELSE [nan |-> FALSE, n |-> IF neg THEN 0 - d.value ELSE d.value]

\* PostgreSQL's integer input for the text parameter $n compared with id:
\* white space, an optional sign, digits, white space, and nothing else;
\* anything else is the error "invalid input syntax for type integer"
pgInteger(str) ==
    LET s    == SkipSpaces(str)
        neg  == s /= <<>> /\ Head(s) = "-"
        body == IF s /= <<>> /\ Head(s) \in {"-", "+"} THEN Tail(s) ELSE s
        d    == DigitPrefix(body, 0, 0)
    IN  IF d.digits = 0 \/ SkipSpaces(d.rest) /= <<>>
        THEN [error |-> TRUE, n |-> 0]
        ELSE [error |-> FALSE, n |-> IF neg THEN 0 - d.value ELSE d.value]

\* String(n) of a number, as a template literal ${n} writes it
RECURSIVE NatString(_)
NatString(n) ==
    IF n < 10 THEN <<DigitChars[n + 1]>>
    ELSE NatString(n \div 10) \o <<DigitChars[(n % 10) + 1]>>

NumberString(n) == IF n < 0 THEN <<"-">> \o NatString(0 - n) ELSE NatString(n)

\* `products:${id}` for an id that is already a string (a path parameter)
ItemKeyOfString(str) == <<"products:">> \o str

\* `products:${id}` for an id that is a number
ItemKeyOfNumber(n) == <<"products:">> \o NumberString(n)

AllKey == <<"products:all">>

-----------------------------------------------------------------------------
(* Rows and request bodies *)

InputFields == {"name", "description", "quantity", "price", "category"}

TextFields == {"name", "description", "category"}

TimestampFields == {"updated_at", "created_at"}

\* DEFAULT CURRENT_TIMESTAMP: node-postgres hands a TIMESTAMP column to the
\* handler as a Date object.  No handler reads or compares the instant, so
\* the instant itself is one token.
CurrentTimestamp == [t |-> "Date", v |-> "CURRENT_TIMESTAMP"]

\* DECIMAL(10, 2): node-postgres hands a numeric column to the handler as
\* text, not as the number that was sent.  Prices are counted in cents.
pgNumeric(p) == [t |-> "string", cents |-> p]

\* the value column f holds after value v was sent for it
ColumnValue(f, v) == IF f = "price" THEN pgNumeric(v) ELSE v

\* INSERT INTO products (name, description, quantity, price, category)
\* VALUES (...) RETURNING *: the row the store builds for id n
NewRow(n, data) ==
    [id          |-> n,
     name        |-> ColumnValue("name", data.name),
     description |-> ColumnValue("description", data.description),
     quantity    |-> ColumnValue("quantity", data.quantity),
     price       |-> ColumnValue("price", data.price),
     category    |-> ColumnValue("category", data.category),
     updated_at  |-> CurrentTimestamp,
     created_at  |-> CurrentTimestamp]

\* the five sample products ensureProductsTableAndData inserts
SampleData ==
    << [name |-> "Laptop", description |-> "15-inch display, 8GB RAM, 512GB SSD",
        quantity |-> 20, price |-> 99999, category |-> "Electronics"],
       [name |-> "Wireless Mouse", description |-> "Bluetooth mouse with ergonomic design",
        quantity |-> 50, price |-> 2550, category |-> "Accessories"],
       [name |-> "Office Chair", description |-> "Adjustable height with lumbar support",
        quantity |-> 15, price |-> 12000, category |-> "Furniture"],
       [name |-> "Desk Lamp", description |-> "LED lamp with adjustable brightness",
        quantity |-> 30, price |-> 4500, category |-> "Accessories"],
       [name |-> "Smartphone", description |-> "6.5-inch screen, 128GB storage",
        quantity |-> 40, price |-> 69999, category |-> "Electronics"] >>

\* the table after ensureProductsTableAndData ran over a fresh database
SampleTable == [n \in 1..Len(SampleData) |-> NewRow(n, SampleData[n])]

\* one constraint of productSchema per field
FieldOk(f, v) ==
    IF f \in TextFields THEN v /= "" ELSE v > 0

\* productSchema: every input field required and valid
productSchema(body) ==
    /\ InputFields \subseteq DOMAIN body
    /\ \A f \in InputFields : FieldOk(f, body[f])

\* productUpdateSchema = productSchema.partial(): every field optional
productUpdateSchema(body) ==
    \A f \in InputFields \cap DOMAIN body : FieldOk(f, body[f])

\* z.object strips the keys the schema does not name
validatedBody(body) == [f \in InputFields \cap DOMAIN body |-> body[f]]

-----------------------------------------------------------------------------
(* The store adapter: pgPool.query on the products table *)

RECURSIVE AscendingIds(_)
AscendingIds(ids) ==
    IF ids = {} THEN <<>>
    ELSE LET m == CHOOSE x \in ids : \A y \in ids : x <= y
         IN  <<m>> \o AscendingIds(ids \ {m})

\* SELECT * FROM products ORDER BY id ASC
selectAll(t) ==
    LET ids == AscendingIds(DOMAIN t)
    IN  [i \in 1..Len(ids) |-> t[ids[i]]]

\* SELECT * FROM products WHERE id = $1
selectById(t, n) == IF n \in DOMAIN t THEN <<t[n]>> ELSE <<>>

\* updatedRow writing the column default to a quantity that is not named
updatedRowDefaultsAbsent(row, updates) ==
    [f \in DOMAIN row |->
        IF f \in DOMAIN updates THEN ColumnValue(f, updates[f])
        ELSE IF f = "quantity" THEN 0 ELSE row[f]]

\* UPDATE products SET key = $i, ... WHERE id = $k RETURNING *: the row
\* after the update; only the columns named in the SET clauses change
updatedRow(row, updates) ==
    [f \in DOMAIN row |->
        IF f \in DOMAIN updates THEN ColumnValue(f, updates[f]) ELSE row[f]]

TablePut(t, n, row) ==
    [x \in DOMAIN t \cup {n} |-> IF x = n THEN row ELSE t[x]]

TableDelete(t, n) == [x \in DOMAIN t \ {n} |-> t[x]]

-----------------------------------------------------------------------------
(* JSON *)

JsObject(o) == [kind |-> "object", v |-> o]

JsArray(a) == [kind |-> "array", v |-> a]

JsNull == [kind |-> "null", v |-> <<>>]

\* Date.prototype.toJSON: a Date is written as its ISO string; a string
\* stays the string it is
toJSON(x) == IF x.t = "Date" THEN [t |-> "string", v |-> x.v] ELSE x

\* a row as JSON.stringify writes it
rowJSON(row) ==
    [f \in DOMAIN row |-> IF f \in TimestampFields THEN toJSON(row[f]) ELSE row[f]]

\* JSON.stringify(value): the text of an object, or of an array of objects
JSONStringify(value) ==
    IF value.kind = "array"
    THEN [kind |-> "json", of |-> "array",
          v |-> [i \in 1..Len(value.v) |-> rowJSON(value.v[i])]]
    ELSE [kind |-> "json", of |-> "object", v |-> rowJSON(value.v)]

\* JSON.parse(text): what comes back holds strings where Dates were
JSONParse(text) == [kind |-> text.of, v |-> text.v]

\* Truthy taking the empty array for falsy, as a test of cached.length
\* would
TruthyNonEmpty(value) ==
    /\ value.kind /= "null"
    /\ value.kind = "array" => Len(value.v) > 0

\* ToBoolean of a value a handler tests: null is falsy; every object and
\* every array, the empty array included, is truthy
Truthy(value) == value.kind /= "null"

\* res.json(body): the response body is the JSON text of body
resJson(value) == JSONStringify(value)

\* res.json({ error: message })
resError(message) ==
    [kind |-> "json", of |-> "error", v |-> message]

\* res.json({ message: message, [field]: row })
resEnvelope(message, field, row) ==
    [kind |-> "json", of |-> "envelope",
     v |-> [message |-> message, field |-> field, row |-> rowJSON(row)]]

-----------------------------------------------------------------------------
(* The cache adapter: redisClient.get / setEx / del *)

CachePut(c, key, entry) ==
    [k \in DOMAIN c \cup {key} |-> IF k = key THEN entry ELSE c[k]]

\* redisClient.del(key)
redisDel(c, key) == [k \in DOMAIN c \ {key} |-> c[k]]

\* redisClient.setEx(key, seconds, text)
redisSetEx(c, key, seconds, text) ==
    CachePut(c, key, [value |-> text, ttl |-> seconds, age |-> 0])

\* cacheSet as it would be with redisClient.set, which sets no expiry
cacheSetNoExpiry(c, key, value) ==
    CachePut(c, key, [value |-> JSONStringify(value), ttl |-> -1, age |-> 0])

\* cacheSet(key, value): expirationInSeconds is never passed, so it is 3600
cacheSet(c, key, value) ==
    redisSetEx(c, key, DefaultTTL, JSONStringify(value))

\* cacheGet with the branches of its conditional swapped,
\* data ? null : JSON.parse(data): null whatever the key holds
cacheGetSwapped(c, key) == JsNull

\* cacheGet(key): data ? JSON.parse(data) : null
cacheGet(c, key) ==
    IF key \in DOMAIN c THEN JSONParse(c[key].value) ELSE JsNull

\* invalidateProductCache without its del of the item key
invalidateCollectionOnly(c, idText) == redisDel(c, AllKey)

\* invalidateProductCache without its del of products:all
invalidateItemOnly(c, idText) == redisDel(c, ItemKeyOfString(idText))

\* invalidateProductCache(id): both keys are deleted; idText is `${id}`
invalidateProductCache(c, idText) ==
    redisDel(redisDel(c, ItemKeyOfString(idText)), AllKey)

-----------------------------------------------------------------------------
(* Requests *)

IdleReq ==
    [pc |-> "idle", op |-> "none", tok |-> <<>>, body |-> <<>>, rows |-> <<>>,
     storeCalls |-> 0, cacheCalls |-> 0, storeErr |-> FALSE, cacheErr |-> FALSE]

NoResponse ==
    [op |-> "none", tok |-> <<>>, body |-> <<>>, status |-> 0,
     resp |-> resError("none"), storeCalls |-> 0, cacheCalls |-> 0,
     storeErr |-> FALSE, cacheErr |-> FALSE, expired |-> FALSE]

\* a request entering handler op at position pc
NewReq(op, pc, tok, body) ==
    [IdleReq EXCEPT !.pc = pc, !.op = op, !.tok = tok, !.body = body]

\* r after one more store call, which threw or not
StoreCall(r, threw) ==
    [r EXCEPT !.storeCalls = @ + 1, !.storeErr = @ \/ threw]

\* r after one more cache call (invalidateProductCache counts as one), which
\* threw or not
CacheCall(r, threw) ==
    [r EXCEPT !.cacheCalls = @ + 1, !.cacheErr = @ \/ threw]

\* the response is sent: the slot is free again and the response is logged
Respond(s, r, status, resp) ==
    /\ req' = [req EXCEPT ![s] = IdleReq]
    /\ log' = << log[2],
                 [op |-> r.op, tok |-> r.tok, body |-> r.body,
                  status |-> status, resp |-> resp,
                  storeCalls |-> r.storeCalls, cacheCalls |-> r.cacheCalls,
                  storeErr |-> r.storeErr, cacheErr |-> r.cacheErr,
                  expired |-> expired] >>
    /\ expired' = FALSE

\* the handler moves on to its next await
Goto(s, r, pc) ==
    /\ req' = [req EXCEPT ![s] = [r EXCEPT !.pc = pc]]
    /\ UNCHANGED <<log, expired, boot>>

\* a slot takes a new request when it is the first free one
Free(s) ==
    /\ req[s].pc = "idle"
    /\ \A r \in Slots : r < s => req[r].pc /= "idle"
    /\ served < MaxRequests
    /\ served' = served + 1

\* no request is in flight
Quiet == \A s \in Slots : req[s].pc = "idle"

\* the history after the table holds row for id n
Held(h, n, row) ==
    [x \in DOMAIN h \cup {n} |->
        IF x = n THEN (IF n \in DOMAIN h THEN h[n] ELSE {}) \cup {row} ELSE h[x]]

\* errorHandler, reached through asyncWrapper by an exception no handler caught
errorHandler(s, r) == Respond(s, r, 500, resError("Internal Server Error"))

\* validateBody(schema) found the body invalid
validateBodyRejects(s, r) == Respond(s, r, 400, resError("Invalid product data"))

\* index.js once app.listen was called after a start without failures:
\* ensureProductsTableAndData took one client from the pool and the first
\* client.connect() succeeded.
Listening ==
    [pc |-> "listening", checkedOut |-> 1, retries |-> DefaultRetries,
     delay |-> DefaultDelay, i |-> 1, connects |-> 1, waits |-> <<>>,
     connected |-> TRUE]

Init ==
    /\ table = SampleTable
    /\ nextId = Len(SampleData) + 1
    /\ cache = <<>>
    /\ storeUp = TRUE
    /\ cacheUp = TRUE
    /\ req = [s \in Slots |-> IdleReq]
    /\ log = <<NoResponse, NoResponse>>
    /\ expired = FALSE
    /\ served = 0
    /\ held = [n \in DOMAIN SampleTable |-> {SampleTable[n]}]
    /\ listed = {selectAll(SampleTable)}
    /\ boot = Listening

\* The service started over an empty products table: the INSERT of the
\* sample rows was rejected, and ensureProductsTableAndData logged the
\* error and returned.
InitEmpty ==
    /\ table = <<>>
    /\ nextId = 1
    /\ cache = <<>>
    /\ storeUp = TRUE
    /\ cacheUp = TRUE
    /\ req = [s \in Slots |-> IdleReq]
    /\ log = <<NoResponse, NoResponse>>
    /\ expired = FALSE
    /\ served = 0
    /\ held = <<>>
    /\ listed = {<<>>}
    /\ boot = Listening

-----------------------------------------------------------------------------
(* GET /products *)

StartGetAll(s) ==
    /\ Free(s)
    /\ Goto(s, NewReq("getAll", "ga_get", <<>>, <<>>), "ga_get")
    /\ UNCHANGED <<table, nextId, cache, storeUp, cacheUp, held, listed, boot>>

\* const cached = await cacheGet(cacheKey); if (cached) return res.json(cached)
GetAllCacheGet(s) ==
    /\ req[s].pc = "ga_get"
    /\ LET r      == CacheCall(req[s], ~cacheUp)
           cached == cacheGet(cache, AllKey)
       IN  IF ~cacheUp
           THEN Respond(s, r, 500, resError("Internal Server Error"))
           ELSE IF Truthy(cached)
                THEN Respond(s, r, 200, resJson(cached))
                ELSE Goto(s, r, "ga_query")
    /\ UNCHANGED <<table, nextId, cache, storeUp, cacheUp, served, held, listed, boot>>

\* const result = await pgPool.query("SELECT * FROM products ORDER BY id ASC")
GetAllQuery(s) ==
    /\ req[s].pc = "ga_query"
    /\ LET r == StoreCall(req[s], ~storeUp)
       IN  IF ~storeUp
           THEN Respond(s, r, 500, resError("Internal Server Error"))
           ELSE Goto(s, [r EXCEPT !.rows = selectAll(table)], "ga_set")
    /\ UNCHANGED <<table, nextId, cache, storeUp, cacheUp, served, held, listed, boot>>

\* GetAllCacheSet caching the first row of the result alone
GetAllCacheSetFirstRowOnly(s) ==
    /\ req[s].pc = "ga_set"
    /\ LET r == CacheCall(req[s], ~cacheUp)
       IN  IF ~cacheUp
           THEN /\ Respond(s, r, 500, resError("Internal Server Error"))
                /\ UNCHANGED cache
           ELSE /\ cache' = cacheSet(cache, AllKey, JsArray(SubSeq(r.rows, 1, 1)))
                /\ Respond(s, r, 200, resJson(JsArray(r.rows)))
    /\ UNCHANGED <<table, nextId, storeUp, cacheUp, served, held, listed, boot>>

\* await cacheSet(cacheKey, products); res.json(products)
GetAllCacheSet(s) ==
    /\ req[s].pc = "ga_set"
    /\ LET r == CacheCall(req[s], ~cacheUp)
       IN  IF ~cacheUp
           THEN /\ Respond(s, r, 500, resError("Internal Server Error"))
                /\ UNCHANGED cache
           ELSE /\ cache' = cacheSet(cache, AllKey, JsArray(r.rows))
                /\ Respond(s, r, 200, resJson(JsArray(r.rows)))
    /\ UNCHANGED <<table, nextId, storeUp, cacheUp, served, held, listed, boot>>

-----------------------------------------------------------------------------
(* GET /products/:id *)

\* const id = parseInt(req.params.id, 10); if (Number.isNaN(id)) return 400
StartGetOne(s, tok) ==
    /\ Free(s)
    /\ LET r == NewReq("getOne", "g1_get", tok, <<>>)
       IN  IF parseInt(tok).nan
           THEN Respond(s, r, 400, resError("Invalid product id"))
           ELSE Goto(s, r, "g1_get")
    /\ UNCHANGED <<table, nextId, cache, storeUp, cacheUp, held, listed, boot>>

\* const cached = await cacheGet(cacheKey); if (cached) return res.json(cached)
GetOneCacheGet(s) ==
    /\ req[s].pc = "g1_get"
    /\ LET r      == CacheCall(req[s], ~cacheUp)
           id     == parseInt(r.tok).n
           cached == cacheGet(cache, ItemKeyOfNumber(id))
       IN  IF ~cacheUp
           THEN Respond(s, r, 500, resError("Internal Server Error"))
           ELSE IF Truthy(cached)
                THEN Respond(s, r, 200, resJson(cached))
                ELSE Goto(s, r, "g1_query")
    /\ UNCHANGED <<table, nextId, cache, storeUp, cacheUp, served, held, listed, boot>>

\* GetOneQuery taking a rejected query for one that matched no row
GetOneQueryErrorAsNoRow(s) ==
    /\ req[s].pc = "g1_query"
    /\ LET r    == StoreCall(req[s], ~storeUp)
           id   == parseInt(r.tok).n
           rows == IF storeUp THEN selectById(table, id) ELSE <<>>
       IN  IF Len(rows) = 0
           THEN Respond(s, r, 404, resError("Product not found"))
           ELSE Goto(s, [r EXCEPT !.rows = rows], "g1_set")
    /\ UNCHANGED <<table, nextId, cache, storeUp, cacheUp, served, held, listed, boot>>

\* GetOneQuery caching the miss: null is stored under the item key before
\* the 404
GetOneQueryCachesMiss(s) ==
    /\ req[s].pc = "g1_query"
    /\ LET r    == StoreCall(req[s], ~storeUp)
           id   == parseInt(r.tok).n
           rows == selectById(table, id)
       IN  IF ~storeUp
           THEN /\ Respond(s, r, 500, resError("Internal Server Error"))
                /\ UNCHANGED cache
           ELSE IF Len(rows) = 0
                THEN /\ cache' = redisSetEx(cache, ItemKeyOfNumber(id), DefaultTTL,
                                            [kind |-> "json", of |-> "null", v |-> <<>>])
                     /\ Respond(s, r, 404, resError("Product not found"))
                ELSE /\ Goto(s, [r EXCEPT !.rows = rows], "g1_set")
                     /\ UNCHANGED cache
    /\ UNCHANGED <<table, nextId, storeUp, cacheUp, served, held, listed, boot>>

\* const result = await pgPool.query("SELECT ... WHERE id = $1", [id]);
\* if (result.rows.length === 0) return 404
GetOneQuery(s) ==
    /\ req[s].pc = "g1_query"
    /\ LET r    == StoreCall(req[s], ~storeUp)
           id   == parseInt(r.tok).n
           rows == selectById(table, id)
       IN  IF ~storeUp
           THEN Respond(s, r, 500, resError("Internal Server Error"))
           ELSE IF Len(rows) = 0
                THEN Respond(s, r, 404, resError("Product not found"))
                ELSE Goto(s, [r EXCEPT !.rows = rows], "g1_set")
    /\ UNCHANGED <<table, nextId, cache, storeUp, cacheUp, served, held, listed, boot>>

\* await cacheSet(cacheKey, product); res.json(product)
GetOneCacheSet(s) ==
    /\ req[s].pc = "g1_set"
    /\ LET r       == CacheCall(req[s], ~cacheUp)
           id      == parseInt(r.tok).n
           product == r.rows[1]
       IN  IF ~cacheUp
           THEN /\ Respond(s, r, 500, resError("Internal Server Error"))
                /\ UNCHANGED cache
           ELSE /\ cache' = cacheSet(cache, ItemKeyOfNumber(id), JsObject(product))
                /\ Respond(s, r, 200, resJson(JsObject(product)))
    /\ UNCHANGED <<table, nextId, storeUp, cacheUp, served, held, listed, boot>>

-----------------------------------------------------------------------------
(* POST /products *)

\* the requests in flight that will still draw an id from the sequence
PendingInserts == Cardinality({r \in Slots : req[r].pc = "c_insert"})

\* validateBody(productSchema), then const productData = req.validatedBody
StartCreate(s, body) ==
    /\ Free(s)
    /\ nextId + PendingInserts <= MaxId
    /\ LET r == NewReq("create", "c_insert", <<>>, body)
       IN  IF ~productSchema(body)
           THEN validateBodyRejects(s, r)
           ELSE Goto(s, [r EXCEPT !.body = validatedBody(body)], "c_insert")
    /\ UNCHANGED <<table, nextId, cache, storeUp, cacheUp, held, listed, boot>>

\* const result = await pgPool.query(INSERT ... RETURNING *); no try/catch
CreateInsert(s) ==
    /\ req[s].pc = "c_insert"
    /\ LET r              == StoreCall(req[s], ~storeUp)
           createdProduct == NewRow(nextId, r.body)
       IN  IF ~storeUp
           THEN /\ errorHandler(s, r)
                /\ UNCHANGED <<table, nextId, held, listed>>
           ELSE /\ table' = TablePut(table, nextId, createdProduct)
                /\ nextId' = nextId + 1
                /\ held' = Held(held, nextId, createdProduct)
                /\ listed' = listed \cup {selectAll(table')}
                /\ Goto(s, [r EXCEPT !.rows = <<createdProduct>>], "c_set")
    /\ UNCHANGED <<cache, storeUp, cacheUp, served, boot>>

\* await cacheSet(`products:${createdProduct.id}`, createdProduct)
CreateCacheSet(s) ==
    /\ req[s].pc = "c_set"
    /\ LET r              == CacheCall(req[s], ~cacheUp)
           createdProduct == r.rows[1]
       IN  IF ~cacheUp
           THEN /\ errorHandler(s, r)
                /\ UNCHANGED cache
           ELSE /\ cache' = cacheSet(cache, ItemKeyOfNumber(createdProduct.id),
                                     JsObject(createdProduct))
                /\ Goto(s, r, "c_inval")
    /\ UNCHANGED <<table, nextId, storeUp, cacheUp, served, held, listed, boot>>

\* await invalidateProductCache(createdProduct.id); res.status(201).json(...)
CreateInvalidate(s) ==
    /\ req[s].pc = "c_inval"
    /\ LET r              == CacheCall(req[s], ~cacheUp)
           createdProduct == r.rows[1]
       IN  IF ~cacheUp
           THEN /\ errorHandler(s, r)
                /\ UNCHANGED cache
           ELSE /\ cache' = invalidateProductCache(cache, NumberString(createdProduct.id))
                /\ Respond(s, r, 201,
                           resEnvelope("Product created", "product", createdProduct))
    /\ UNCHANGED <<table, nextId, storeUp, cacheUp, served, held, listed, boot>>

-----------------------------------------------------------------------------
(* PUT /products/:id *)

\* StartUpdate without the test of keys.length
StartUpdateNoEmptyCheck(s, tok, body) ==
    /\ Free(s)
    /\ LET r       == NewReq("update", "u_query", tok, body)
           updates == validatedBody(body)
       IN  IF ~productUpdateSchema(body)
           THEN validateBodyRejects(s, r)
           ELSE IF tok = <<>>
                THEN Respond(s, r, 400, resError("Invalid product id"))
                ELSE Goto(s, [r EXCEPT !.body = updates], "u_query")
    /\ UNCHANGED <<table, nextId, cache, storeUp, cacheUp, held, listed, boot>>

\* validateBody(productUpdateSchema); const { id } = req.params;
\* if (!id) return 400; if (keys.length === 0) return 400
StartUpdate(s, tok, body) ==
    /\ Free(s)
    /\ LET r       == NewReq("update", "u_query", tok, body)
           updates == validatedBody(body)
       IN  IF ~productUpdateSchema(body)
           THEN validateBodyRejects(s, r)
           ELSE IF tok = <<>>
                THEN Respond(s, r, 400, resError("Invalid product id"))
                ELSE IF DOMAIN updates = {}
                     THEN Respond(s, [r EXCEPT !.body = updates], 400,
                                  resError("No fields provided to update"))
                     ELSE Goto(s, [r EXCEPT !.body = updates], "u_query")
    /\ UNCHANGED <<table, nextId, cache, storeUp, cacheUp, held, listed, boot>>

\* UpdateQuery invalidating the keys of the id before it sends the UPDATE
UpdateQueryInvalidatesFirst(s) ==
    /\ req[s].pc = "u_query"
    /\ LET id    == pgInteger(req[s].tok)
           threw == ~storeUp \/ id.error
           r     == StoreCall(CacheCall(req[s], FALSE), threw)
       IN  /\ cache' = invalidateProductCache(cache, req[s].tok)
           /\ IF threw
              THEN /\ Respond(s, r, 500, resError("Database error"))
                   /\ UNCHANGED <<table, held, listed>>
              ELSE IF id.n \notin DOMAIN table
                   THEN /\ Respond(s, r, 404, resError("Product not found"))
                        /\ UNCHANGED <<table, held, listed>>
                   ELSE LET row == updatedRow(table[id.n], r.body)
                        IN  /\ table' = TablePut(table, id.n, row)
                            /\ held' = Held(held, id.n, row)
                            /\ listed' = listed \cup {selectAll(table')}
                            /\ Goto(s, [r EXCEPT !.rows = <<row>>], "u_inval")
    /\ UNCHANGED <<nextId, storeUp, cacheUp, served, boot>>

\* const { rows } = await pgPool.query(UPDATE ... WHERE id = $k RETURNING *,
\* [...values, id]); if (rows.length === 0) return 404.  id is the path
\* string: the store reads it as an integer, or rejects the query.
UpdateQuery(s) ==
    /\ req[s].pc = "u_query"
    /\ LET id    == pgInteger(req[s].tok)
           threw == ~storeUp \/ id.error
           r     == StoreCall(req[s], threw)
       IN  IF threw
           THEN /\ Respond(s, r, 500, resError("Database error"))
                /\ UNCHANGED <<table, held, listed>>
           ELSE IF id.n \notin DOMAIN table
                THEN /\ Respond(s, r, 404, resError("Product not found"))
                     /\ UNCHANGED <<table, held, listed>>
                ELSE LET row == updatedRow(table[id.n], r.body)
                     IN  /\ table' = TablePut(table, id.n, row)
                         /\ held' = Held(held, id.n, row)
                         /\ listed' = listed \cup {selectAll(table')}
                         /\ Goto(s, [r EXCEPT !.rows = <<row>>], "u_inval")
    /\ UNCHANGED <<nextId, cache, storeUp, cacheUp, served, boot>>

\* await invalidateProductCache(id)
UpdateInvalidate(s) ==
    /\ req[s].pc = "u_inval"
    /\ LET r == CacheCall(req[s], ~cacheUp)
       IN  IF ~cacheUp
           THEN /\ Respond(s, r, 500, resError("Database error"))
                /\ UNCHANGED cache
           ELSE /\ cache' = invalidateProductCache(cache, r.tok)
                /\ Goto(s, r, "u_set")
    /\ UNCHANGED <<table, nextId, storeUp, cacheUp, served, held, listed, boot>>

\* UpdateCacheSet caching the validated updates instead of rows[0]
UpdateCacheSetUpdates(s) ==
    /\ req[s].pc = "u_set"
    /\ LET r == CacheCall(req[s], ~cacheUp)
       IN  IF ~cacheUp
           THEN /\ Respond(s, r, 500, resError("Database error"))
                /\ UNCHANGED cache
           ELSE /\ cache' = cacheSet(cache, ItemKeyOfString(r.tok), JsObject(r.body))
                /\ Respond(s, r, 200,
                           resEnvelope("Product updated successfully", "product", r.rows[1]))
    /\ UNCHANGED <<table, nextId, storeUp, cacheUp, served, held, listed, boot>>

\* UpdateCacheSet with the two cache calls in the order create makes them:
\* the row is cached and then invalidated
UpdateCacheSetThenInvalidate(s) ==
    /\ req[s].pc = "u_set"
    /\ LET r == CacheCall(req[s], ~cacheUp)
       IN  IF ~cacheUp
           THEN /\ Respond(s, r, 500, resError("Database error"))
                /\ UNCHANGED cache
           ELSE /\ cache' = invalidateProductCache(
                                cacheSet(cache, ItemKeyOfString(r.tok), JsObject(r.rows[1])),
                                r.tok)
                /\ Respond(s, r, 200,
                           resEnvelope("Product updated successfully", "product", r.rows[1]))
    /\ UNCHANGED <<table, nextId, storeUp, cacheUp, served, held, listed, boot>>

\* await cacheSet(`products:${id}`, rows[0]); res.status(200).json(...)
UpdateCacheSet(s) ==
    /\ req[s].pc = "u_set"
    /\ LET r == CacheCall(req[s], ~cacheUp)
       IN  IF ~cacheUp
           THEN /\ Respond(s, r, 500, resError("Database error"))
                /\ UNCHANGED cache
           ELSE /\ cache' = cacheSet(cache, ItemKeyOfString(r.tok), JsObject(r.rows[1]))
                /\ Respond(s, r, 200,
                           resEnvelope("Product updated successfully", "product", r.rows[1]))
    /\ UNCHANGED <<table, nextId, storeUp, cacheUp, served, held, listed, boot>>

-----------------------------------------------------------------------------
(* DELETE /products/:id *)

\* const id = parseInt(req.params.id, 10);
\* if (Number.isNaN(id) || id <= 0) return 400
StartDelete(s, tok) ==
    /\ Free(s)
    /\ LET r  == NewReq("remove", "d_query", tok, <<>>)
           id == parseInt(tok)
       IN  IF id.nan \/ id.n <= 0
           THEN Respond(s, r, 400, resError("Invalid product id"))
           ELSE Goto(s, r, "d_query")
    /\ UNCHANGED <<table, nextId, cache, storeUp, cacheUp, held, listed, boot>>

\* DeleteQuery invalidating the keys of the id before it answers 404
DeleteQueryEvictsOnNotFound(s) ==
    /\ req[s].pc = "d_query"
    /\ LET r  == StoreCall(req[s], ~storeUp)
           id == parseInt(r.tok).n
       IN  IF ~storeUp
           THEN /\ Respond(s, r, 500, resError("Database error"))
                /\ UNCHANGED <<table, cache, listed>>
           ELSE IF id \notin DOMAIN table
                THEN /\ cache' = invalidateProductCache(cache, NumberString(id))
                     /\ Respond(s, r, 404, resError("Product not found"))
                     /\ UNCHANGED <<table, listed>>
                ELSE /\ table' = TableDelete(table, id)
                     /\ listed' = listed \cup {selectAll(table')}
                     /\ Goto(s, [r EXCEPT !.rows = <<table[id]>>], "d_inval")
                     /\ UNCHANGED cache
    /\ UNCHANGED <<nextId, storeUp, cacheUp, served, held, boot>>

\* const { rows } = await pgPool.query(DELETE ... RETURNING *, [id]);
\* if (rows.length === 0) return 404
DeleteQuery(s) ==
    /\ req[s].pc = "d_query"
    /\ LET r  == StoreCall(req[s], ~storeUp)
           id == parseInt(r.tok).n
       IN  IF ~storeUp
           THEN /\ Respond(s, r, 500, resError("Database error"))
                /\ UNCHANGED <<table, listed>>
           ELSE IF id \notin DOMAIN table
                THEN /\ Respond(s, r, 404, resError("Product not found"))
                     /\ UNCHANGED <<table, listed>>
                ELSE /\ table' = TableDelete(table, id)
                     /\ listed' = listed \cup {selectAll(table')}
                     /\ Goto(s, [r EXCEPT !.rows = <<table[id]>>], "d_inval")
    /\ UNCHANGED <<nextId, cache, storeUp, cacheUp, served, held, boot>>

\* DeleteInvalidate undoing the DELETE when the cache call fails
DeleteInvalidateRestoresRow(s) ==
    /\ req[s].pc = "d_inval"
    /\ LET r  == CacheCall(req[s], ~cacheUp)
           id == parseInt(r.tok).n
       IN  IF ~cacheUp
           THEN /\ table' = TablePut(table, id, r.rows[1])
                /\ Respond(s, r, 500, resError("Database error"))
                /\ UNCHANGED cache
           ELSE /\ cache' = invalidateProductCache(cache, NumberString(id))
                /\ Respond(s, r, 200,
                           resEnvelope("Product deleted successfully", "deleted", r.rows[1]))
                /\ UNCHANGED table
    /\ UNCHANGED <<nextId, storeUp, cacheUp, served, held, listed, boot>>

\* await invalidateProductCache(id); res.status(200).json(...)
DeleteInvalidate(s) ==
    /\ req[s].pc = "d_inval"
    /\ LET r  == CacheCall(req[s], ~cacheUp)
           id == parseInt(r.tok).n
       IN  IF ~cacheUp
           THEN /\ Respond(s, r, 500, resError("Database error"))
                /\ UNCHANGED cache
           ELSE /\ cache' = invalidateProductCache(cache, NumberString(id))
                /\ Respond(s, r, 200,
                           resEnvelope("Product deleted successfully", "deleted", r.rows[1]))
    /\ UNCHANGED <<table, nextId, storeUp, cacheUp, served, held, listed, boot>>

-----------------------------------------------------------------------------
(* The environment: time and the two backends *)

TickSeconds == DefaultTTL \div TicksPerTTL

\* the keys Redis still holds after TickSeconds more seconds: a key set with
\* an expiry is gone once its age reaches its ttl; ttl -1 means no expiry
Unexpired(c) ==
    {k \in DOMAIN c : c[k].ttl < 0 \/ c[k].age + TickSeconds < c[k].ttl}

\* TickSeconds pass
Tick ==
    /\ cache' = [k \in Unexpired(cache) |->
                    IF cache[k].ttl < 0 THEN cache[k]
                    ELSE [cache[k] EXCEPT !.age = @ + TickSeconds]]
    /\ expired' = (expired \/ Unexpired(cache) /= DOMAIN cache)
    /\ UNCHANGED <<table, nextId, storeUp, cacheUp, req, log, served, held, listed, boot>>

\* Redis becomes unreachable: every command rejects until it is back
CacheOutage ==
    /\ cacheUp
    /\ cacheUp' = FALSE
    /\ UNCHANGED <<table, nextId, cache, storeUp, req, log, expired, served, held, listed, boot>>

CacheRecover ==
    /\ ~cacheUp
    /\ cacheUp' = TRUE
    /\ UNCHANGED <<table, nextId, cache, storeUp, req, log, expired, served, held, listed, boot>>

\* PostgreSQL becomes unreachable: every query rejects until it is back
StoreOutage ==
    /\ storeUp
    /\ storeUp' = FALSE
    /\ UNCHANGED <<table, nextId, cache, cacheUp, req, log, expired, served, held, listed, boot>>

StoreRecover ==
    /\ ~storeUp
    /\ storeUp' = TRUE
    /\ UNCHANGED <<table, nextId, cache, cacheUp, req, log, expired, served, held, listed, boot>>

-----------------------------------------------------------------------------
(* index.js: ensureProductsTableAndData, then start() *)

\* the values connectWithRetry is called with
RetryCounts == 1..DefaultRetries

Delays == {DefaultDelay \div 2, DefaultDelay}

\* a step of the start changes boot and nothing else
BootOnly ==
    UNCHANGED <<table, nextId, cache, storeUp, cacheUp, req, log, expired, served,
                held, listed>>

\* ensureProductsTableAndData returns, from the end of the try block or
\* from the catch that logs the error: the client it took from the pool is
\* not released.  index.js goes on to start(), which calls connectWithRetry.
EnsureReturns(b) == [b EXCEPT !.pc = "connect"]

\* the process starts: the database is fresh or holds the sample rows of an
\* earlier run, and each backend is reachable or not
InitStartup ==
    /\ table \in {<<>>, SampleTable}
    /\ nextId = Cardinality(DOMAIN table) + 1
    /\ cache = <<>>
    /\ storeUp \in BOOLEAN
    /\ cacheUp \in BOOLEAN
    /\ req = [s \in Slots |-> IdleReq]
    /\ log = <<NoResponse, NoResponse>>
    /\ expired = FALSE
    /\ served = 0
    /\ held = [n \in DOMAIN table |-> {table[n]}]
    /\ listed = {selectAll(table)}
    /\ \E retries \in RetryCounts, delay \in Delays :
          boot = [pc |-> "pool_connect", checkedOut |-> 0, retries |-> retries,
                  delay |-> delay, i |-> 1, connects |-> 0, waits |-> <<>>,
                  connected |-> FALSE]

\* const client = await pgPool.connect(): outside the try block, so a
\* rejection ends the top-level await of index.js and with it the process
PoolConnect ==
    /\ boot.pc = "pool_connect"
    /\ boot' = IF storeUp
               THEN [boot EXCEPT !.pc = "create_table", !.checkedOut = @ + 1]
               ELSE [boot EXCEPT !.pc = "crashed"]
    /\ BootOnly

\* await client.query(CREATE TABLE IF NOT EXISTS products ...)
CreateTable ==
    /\ boot.pc = "create_table"
    /\ boot' = IF storeUp
               THEN [boot EXCEPT !.pc = "count"]
               ELSE EnsureReturns(boot)
    /\ BootOnly

\* const { rows } = await client.query("SELECT COUNT(*) FROM products;");
\* if (count < 5) ... else ...
CountRows ==
    /\ boot.pc = "count"
    /\ boot' = IF storeUp
               THEN IF Cardinality(DOMAIN table) < 5
                    THEN [boot EXCEPT !.pc = "insert"]
                    ELSE EnsureReturns(boot)
               ELSE EnsureReturns(boot)
    /\ BootOnly

\* await client.query(INSERT INTO products ... VALUES the five samples)
InsertSamples ==
    /\ boot.pc = "insert"
    /\ boot' = EnsureReturns(boot)
    /\ IF storeUp
       THEN LET ids  == nextId..(nextId + Len(SampleData) - 1)
                rows == [n \in ids |-> NewRow(n, SampleData[n - nextId + 1])]
            IN  /\ table' = [n \in DOMAIN table \cup ids |->
                                IF n \in ids THEN rows[n] ELSE table[n]]
                /\ nextId' = nextId + Len(SampleData)
                /\ held' = [n \in DOMAIN held \cup ids |->
                               IF n \in ids THEN {rows[n]} ELSE held[n]]
                /\ listed' = listed \cup {selectAll(table')}
       ELSE UNCHANGED <<table, nextId, held, listed>>
    /\ UNCHANGED <<cache, storeUp, cacheUp, req, log, expired, served>>

\* setTimeout(resolve, backoff) with const backoff = delay * i
backoffConstant(delay, i) == delay

backoff(delay, i) == delay * i

\* try { await client.connect(); return } catch (err) { ... }: attempt i
ConnectAttempt ==
    /\ boot.pc = "connect"
    /\ boot' = IF cacheUp
               THEN [boot EXCEPT !.pc = "create_app", !.connects = @ + 1,
                                 !.connected = TRUE]
               ELSE [boot EXCEPT !.pc = "backoff", !.connects = @ + 1]
    /\ BootOnly

\* the catch block of attempt i: if (i <= retries) wait backoff ms, else
\* throw err; then i++, and the loop goes on while i <= retries.  When the
\* loop ends the function returns undefined.  An error thrown here would
\* reject start(), which nothing handles.
Backoff ==
    /\ boot.pc = "backoff"
    /\ boot' = IF boot.i <= boot.retries
               THEN [boot EXCEPT
                       !.waits = Append(@, backoff(boot.delay, boot.i)),
                       !.i = @ + 1,
                       !.pc = IF boot.i + 1 <= boot.retries
                              THEN "connect" ELSE "create_app"]
               ELSE [boot EXCEPT !.pc = "crashed"]
    /\ BootOnly

\* const app = createApp({ redisClient, pgPool }); app.listen(PORT, ...)
CreateApp ==
    /\ boot.pc = "create_app"
    /\ boot' = [boot EXCEPT !.pc = "listening"]
    /\ BootOnly

\* one step of the start of the process
Startup ==
    \/ PoolConnect \/ CreateTable \/ CountRows \/ InsertSamples
    \/ ConnectAttempt \/ Backoff \/ CreateApp

\* an outage of a backend begins or ends
Outages ==
    \/ StoreOutage \/ StoreRecover
    \/ CacheOutage \/ CacheRecover

\* The start of the process while either backend may fail and come back at
\* any moment.
NextStartup == Startup \/ Outages

SpecStartup == InitStartup /\ [][NextStartup]_vars

\* The same, where an awaited call of the start that can settle does settle:
\* a connection attempt resolves or rejects, a timer fires.
SpecStartupFair == SpecStartup /\ WF_vars(Startup)

-----------------------------------------------------------------------------
(* Specifications *)

\* the path parameters requests are sent with
Paths == { <<"1">>, <<"0", "1">>, <<"6">> }

\* the bodies POST /products is sent with
CreateBodies ==
    { [name |-> "Pen", description |-> "Blue ink", quantity |-> 100,
       price |-> 150, category |-> "Office"] }

\* the bodies PUT /products/:id is sent with
UpdateBodies ==
    { [name |-> "Notebook"], [quantity |-> 7, price |-> 250] }

\* one awaited call of the request in slot s completes
Step(s) ==
    \/ GetAllCacheGet(s) \/ GetAllQuery(s) \/ GetAllCacheSet(s)
    \/ GetOneCacheGet(s) \/ GetOneQuery(s) \/ GetOneCacheSet(s)
    \/ CreateInsert(s) \/ CreateCacheSet(s) \/ CreateInvalidate(s)
    \/ UpdateQuery(s) \/ UpdateInvalidate(s) \/ UpdateCacheSet(s)
    \/ DeleteQuery(s) \/ DeleteInvalidate(s)

\* a request arrives: any of the five routes, with any of the inputs
Arrive(s) ==
    \/ StartGetAll(s)
    \/ \E tok \in Paths : StartGetOne(s, tok)
    \/ \E body \in CreateBodies : StartCreate(s, body)
    \/ \E tok \in Paths, body \in UpdateBodies : StartUpdate(s, tok, body)
    \/ \E tok \in Paths : StartDelete(s, tok)

\* the path parameter of the requests that are all about one product
OnePath == { <<"1">> }

\* a request about product 1 arrives, or one about the whole collection
ArriveOne(s) ==
    \/ StartGetAll(s)
    \/ \E tok \in OnePath : StartGetOne(s, tok)
    \/ \E body \in CreateBodies : StartCreate(s, body)
    \/ \E tok \in OnePath, body \in UpdateBodies : StartUpdate(s, tok, body)
    \/ \E tok \in OnePath : StartDelete(s, tok)

\* a getOne, update or remove of product 1 arrives
ArriveItem(s) ==
    \/ \E tok \in OnePath : StartGetOne(s, tok)
    \/ \E tok \in OnePath, body \in UpdateBodies : StartUpdate(s, tok, body)
    \/ \E tok \in OnePath : StartDelete(s, tok)

\* one awaited call of a getOne, update or remove completes
StepItem(s) ==
    \/ GetOneCacheGet(s) \/ GetOneQuery(s) \/ GetOneCacheSet(s)
    \/ UpdateQuery(s) \/ UpdateInvalidate(s) \/ UpdateCacheSet(s)
    \/ DeleteQuery(s) \/ DeleteInvalidate(s)

\* Requests served one after the other by healthy backends: a request
\* arrives only when no other is in flight.
Next ==
    \/ \E s \in Slots : Quiet /\ Arrive(s)
    \/ \E s \in Slots : Step(s)
    \/ Tick

Spec == Init /\ [][Next]_vars

\* Requests served one after the other while Redis may fail and come back
\* at any moment.
NextCacheOutage ==
    \/ \E s \in Slots : Quiet /\ ArriveOne(s)
    \/ \E s \in Slots : Step(s)
    \/ Tick
    \/ CacheOutage \/ CacheRecover

SpecCacheOutage == Init /\ [][NextCacheOutage]_vars

\* Requests served one after the other while PostgreSQL may fail and come
\* back at any moment.
NextStoreOutage ==
    \/ \E s \in Slots : Quiet /\ ArriveOne(s)
    \/ \E s \in Slots : Step(s)
    \/ Tick
    \/ StoreOutage \/ StoreRecover

SpecStoreOutage == Init /\ [][NextStoreOutage]_vars

\* getOne, update and remove requests on one product that overlap: up to
\* MaxReqs are in flight, and each advances by one awaited call at a time.
NextConcurrent ==
    \/ \E s \in Slots : ArriveItem(s)
    \/ \E s \in Slots : StepItem(s)
    \/ Tick

SpecConcurrent == Init /\ [][NextConcurrent]_vars

\* the one patch sent by the updates that overlap a getAll
OnePatch == { [name |-> "Notebook"] }

\* a getAll arrives, or a create, or an update or remove of product 1
ArriveListing(s) ==
    \/ StartGetAll(s)
    \/ \E body \in CreateBodies : StartCreate(s, body)
    \/ \E tok \in OnePath, body \in OnePatch : StartUpdate(s, tok, body)
    \/ \E tok \in OnePath : StartDelete(s, tok)

\* one awaited call of a getAll, create, update or remove completes
StepListing(s) ==
    \/ GetAllCacheGet(s) \/ GetAllQuery(s) \/ GetAllCacheSet(s)
    \/ CreateInsert(s) \/ CreateCacheSet(s) \/ CreateInvalidate(s)
    \/ UpdateQuery(s) \/ UpdateInvalidate(s) \/ UpdateCacheSet(s)
    \/ DeleteQuery(s) \/ DeleteInvalidate(s)

\* getAll requests that overlap with creates, updates and removes: up to
\* MaxReqs are in flight, and each advances by one awaited call at a time.
NextConcurrentListing ==
    \/ \E s \in Slots : ArriveListing(s)
    \/ \E s \in Slots : StepListing(s)
    \/ Tick

SpecConcurrentListing == Init /\ [][NextConcurrentListing]_vars

\* path parameters that are a number, no number at all, and a number
\* followed by letters
ValidationPaths == { <<"1">>, <<"a", "b", "c">>, <<"1", "a", "b", "c">> }

\* bodies of POST /products: a valid one and one with an empty name
ValidationCreateBodies ==
    CreateBodies \cup
    { [name |-> "", description |-> "Blue ink", quantity |-> 100,
       price |-> 150, category |-> "Office"] }

\* bodies of PUT /products/:id: the empty object, one whose only key the
\* schema does not name, a valid patch, one with a quantity of zero, and a
\* valid patch sent along with an id
ValidationUpdateBodies ==
    { [f \in {} |-> ""], [colour |-> "red"], [name |-> "Notebook"], [quantity |-> 0],
      [id |-> 9, quantity |-> 7] }

\* a request arrives with a well-formed or a malformed path or body
ArriveValidation(s) ==
    \/ StartGetAll(s)
    \/ \E tok \in ValidationPaths : StartGetOne(s, tok)
    \/ \E body \in ValidationCreateBodies : StartCreate(s, body)
    \/ \E tok \in ValidationPaths, body \in ValidationUpdateBodies :
          StartUpdate(s, tok, body)
    \/ \E tok \in ValidationPaths : StartDelete(s, tok)

\* Requests with well-formed and malformed inputs, served one after the
\* other by healthy backends.
NextValidation ==
    \/ \E s \in Slots : Quiet /\ ArriveValidation(s)
    \/ \E s \in Slots : Step(s)
    \/ Tick

SpecValidation == Init /\ [][NextValidation]_vars

\* Requests served one after the other by healthy backends, starting from
\* an empty table.
SpecEmpty == InitEmpty /\ [][Next]_vars

-----------------------------------------------------------------------------
(* What the claims speak of *)

\* the last response sent, and the one before it
Last == log[2]

Prev == log[1]

Mutations == {"create", "update", "remove"}

\* response x reports a mutation the store carried out and the handler
\* answered with its success status
Succeeded(x) ==
    \/ x.op = "create" /\ x.status = 201
    \/ x.op \in {"update", "remove"} /\ x.status = 200

\* the row a successful mutation answered with, as JSON
RowOf(x) == x.resp.v.row

\* response x is a getOne that was let through to the cache, for product n
GetOneOf(x, n) ==
    /\ x.op = "getOne"
    /\ ~parseInt(x.tok).nan
    /\ parseInt(x.tok).n = n

\* key holds exactly the JSON text of row
Holds(key, rowAsJSON) ==
    /\ key \in DOMAIN cache
    /\ cache[key].value = [kind |-> "json", of |-> "object", v |-> rowAsJSON]

\* x is an update whose validated body has no fields
EmptyPatch(x) == x.op = "update" /\ DOMAIN x.body = {}

\* the ids of the rows of JSON array a, in the order of the array
Ascending(a) == \A i, j \in 1..Len(a) : i < j => a[i].id < a[j].id

\* str is a decimal numeral: one or more digits and nothing else
AllDigits(str) == Len(str) > 0 /\ \A i \in 1..Len(str) : IsDigit(str[i])

\* the store has no row for the id that update or remove request r names
NoRow(r) ==
    IF r.op = "update"
    THEN pgInteger(r.tok).n \notin DOMAIN table
    ELSE parseInt(r.tok).n \notin DOMAIN table

-----------------------------------------------------------------------------
(* C1..C10 *)

\* C1: after a successful create that no request overlaps, products:<new id>
\* holds the created record, and a getOne(new id) that follows at once
\* answers 200 with the created record without a store query.
C1_CreatePopulatesItemKey ==
    /\ (Quiet /\ Succeeded(Last) /\ Last.op = "create" /\ ~expired)
          => Holds(ItemKeyOfNumber(RowOf(Last).id), RowOf(Last))
    /\ (Succeeded(Prev) /\ Prev.op = "create"
          /\ GetOneOf(Last, RowOf(Prev).id) /\ ~Last.expired)
          => /\ Last.status = 200
             /\ Last.resp.v = RowOf(Prev)
             /\ Last.storeCalls = 0

\* C2: after a successful update that no request overlaps, the item key of
\* the request holds the updated row, and a getOne of that product that
\* follows answers with the patched record, never with an older one.
C2_GetOneAfterUpdateIsFresh ==
    /\ (Quiet /\ Succeeded(Last) /\ Last.op = "update" /\ ~expired)
          => Holds(ItemKeyOfString(Last.tok), RowOf(Last))
    /\ (Succeeded(Prev) /\ Prev.op = "update" /\ GetOneOf(Last, RowOf(Prev).id))
          => /\ Last.status = 200
             /\ Last.resp.v = RowOf(Prev)

\* C3: after a successful remove that no request overlaps, products:<id> and
\* products:all are both absent, and a getOne(id) that follows queries the
\* store once and answers 404.
C3_RemoveEvictsAndGetOneIsNotFound ==
    /\ (Quiet /\ Succeeded(Last) /\ Last.op = "remove")
          => /\ ItemKeyOfNumber(RowOf(Last).id) \notin DOMAIN cache
             /\ AllKey \notin DOMAIN cache
    /\ (Succeeded(Prev) /\ Prev.op = "remove" /\ GetOneOf(Last, RowOf(Prev).id))
          => /\ Last.status = 404
             /\ Last.storeCalls = 1

\* the third request of a behaviour is a getOne of the product that the
\* second, a successful remove, deleted: it is answered 404
C3_Witness ==
    /\ Succeeded(Prev) /\ Prev.op = "remove"
    /\ GetOneOf(Last, RowOf(Prev).id)
    /\ Last.status = 404
    /\ served = 3

\* C4: a successful create, update or remove leaves products:all absent, and
\* a getAll that follows it without overlap queries the store and answers
\* with the table as it is now.
C4_GetAllAfterMutationIsFresh ==
    /\ (Quiet /\ Succeeded(Last)) => AllKey \notin DOMAIN cache
    /\ (Quiet /\ Succeeded(Prev) /\ Last.op = "getAll")
          => /\ Last.status = 200
             /\ Last.storeCalls = 1
             /\ Last.resp = resJson(JsArray(selectAll(table)))

\* the third request of a behaviour is a getAll answered from the store,
\* right after a successful mutation
C4_Witness ==
    /\ Quiet /\ Succeeded(Prev) /\ Last.op = "getAll"
    /\ Last.status = 200 /\ Last.storeCalls = 1
    /\ served = 3

\* C5: when a getOne(id) answered 200 and the next request is again
\* getOne(id), with no key expiring in between, the second answers 200 with
\* the same body and issues no store query.
C5_SecondGetOneIsCacheHit ==
    (/\ Prev.op = "getOne" /\ Prev.status = 200
     /\ GetOneOf(Last, parseInt(Prev.tok).n)
     /\ ~Last.expired)
       => /\ Last.status = 200
          /\ Last.resp = Prev.resp
          /\ Last.storeCalls = 0

\* the first getOne missed and queried the store, the second hit the cache
C5_Witness ==
    /\ Prev.op = "getOne" /\ Prev.status = 200 /\ Prev.storeCalls = 1
    /\ GetOneOf(Last, parseInt(Prev.tok).n)
    /\ ~Last.expired
    /\ Last.status = 200 /\ Last.storeCalls = 0

\* C6: a getOne or getAll during which a cache call failed and no store call
\* failed is answered from the store with a success status, not with an error.
C6_ReadToleratesCacheFailure ==
    (Last.op \in {"getOne", "getAll"} /\ Last.cacheErr /\ ~Last.storeErr)
       => /\ Last.status \in {200, 404}
          /\ Last.storeCalls = 1

\* C7: a create, update or remove whose store mutation succeeded is answered
\* with its success status even when a cache call of the request failed.
C7_WriteSurvivesCacheFailure ==
    (/\ Last.op \in Mutations
     /\ Last.storeCalls = 1 /\ ~Last.storeErr
     /\ Last.status /= 404
     /\ Last.cacheErr)
       => Succeeded(Last)

\* C8: once all requests have completed, a present entry products:<id>
\* equals the store's current row, and no entry is present for a deleted
\* product.
C8_QuiescentItemEntryIsCurrent ==
    Quiet =>
        \A n \in DOMAIN held :
            ItemKeyOfNumber(n) \in DOMAIN cache
               => /\ n \in DOMAIN table
                  /\ Holds(ItemKeyOfNumber(n), rowJSON(table[n]))

\* C8 as amended: at every moment a present entry products:<id> is the JSON
\* text of a row the store has held for that product, now or earlier.
C8_ItemEntryIsSomeHeldRow ==
    \A n \in DOMAIN held :
        ItemKeyOfNumber(n) \in DOMAIN cache
           => \E row \in held[n] : Holds(ItemKeyOfNumber(n), rowJSON(row))

\* all requests have completed and products:1 holds a row older than the
\* store's current one
C8_Witness ==
    /\ Quiet
    /\ 1 \in DOMAIN table
    /\ ItemKeyOfNumber(1) \in DOMAIN cache
    /\ ~Holds(ItemKeyOfNumber(1), rowJSON(table[1]))
    /\ \E row \in held[1] : Holds(ItemKeyOfNumber(1), rowJSON(row))

\* C9: once all requests have completed, with no key expired since, the
\* item key of the update that answered last holds that update's row,
\* whatever row the store holds.
C9_CacheHoldsLastCacheWriter ==
    (Quiet /\ Succeeded(Last) /\ Last.op = "update" /\ ~expired)
       => Holds(ItemKeyOfString(Last.tok), RowOf(Last))

\* two updates of product 1 have both completed: the cache holds the row of
\* the one that wrote the cache last, the store the row of the other
C9_Witness ==
    /\ Quiet
    /\ Succeeded(Prev) /\ Prev.op = "update"
    /\ Succeeded(Last) /\ Last.op = "update"
    /\ Prev.tok = Last.tok
    /\ RowOf(Prev) /= RowOf(Last)
    /\ Holds(ItemKeyOfString(Last.tok), RowOf(Last))
    /\ 1 \in DOMAIN table
    /\ rowJSON(table[1]) = RowOf(Prev)

\* C10: every entry in the cache was written with a time-to-live of 3600
\* seconds and is younger than that.
C10_EveryEntryExpires ==
    \A k \in DOMAIN cache :
        /\ cache[k].ttl = DefaultTTL
        /\ cache[k].age < DefaultTTL

\* the collection key and an item key are both cached, one of them written
\* a tick ago
C10_Witness ==
    /\ AllKey \in DOMAIN cache
    /\ \E k \in DOMAIN cache : k /= AllKey
    /\ \E k \in DOMAIN cache : cache[k].age > 0

-----------------------------------------------------------------------------
(* C11..C20 *)

\* C11: a request during which a store query failed, whichever of the five
\* operations it is, is answered 500 with an error body: never 404, never a
\* success status with an empty or default result.
C11_StoreFailureIsReportedAs500 ==
    \A x \in {Prev, Last} :
        x.storeErr
           => /\ x.status = 500
              /\ x.resp.of = "error"
              /\ x.resp.v \in {"Internal Server Error", "Database error"}

\* a create and then a getOne both met a failing store
C11_Witness ==
    /\ Prev.op = "create" /\ Prev.storeErr /\ Prev.status = 500
    /\ Last.op = "getOne" /\ Last.storeErr /\ Last.status = 500

\* C12: an update whose validated body has no fields is answered 400 at
\* once: it never reaches an awaited call, it makes no store query and no
\* cache call, and the step that answers it leaves store and cache as they
\* were.
C12_EmptyPatchIsRejectedUntouched ==
    /\ [](/\ \A s \in Slots : ~EmptyPatch(req[s])
          /\ \A x \in {Prev, Last} :
                EmptyPatch(x)
                   => /\ x.status = 400
                      /\ x.resp = resError("No fields provided to update")
                      /\ x.storeCalls = 0
                      /\ x.cacheCalls = 0)
    /\ [][(served' = served + 1 /\ req' = req /\ EmptyPatch(log'[2]))
             => /\ table' = table
                /\ nextId' = nextId
                /\ cache' = cache]_vars

\* product 1 was read and cached, then an empty patch for it was rejected,
\* and the cached entry is still there
C12_Witness ==
    /\ Prev.op = "getOne" /\ Prev.status = 200
    /\ EmptyPatch(Last) /\ Last.tok = <<"1">> /\ Last.status = 400
    /\ Holds(ItemKeyOfNumber(1), Prev.resp.v)

\* C13: a getOne answered 404 made one cache read and one store query and
\* no other call; no step of a getOne before its cacheSet changes the cache
\* or the store, and a getOne answered 404 has no cacheSet; so the next
\* getOne of the same id queries the store again and is answered 404 again.
C13_NoNegativeCaching ==
    /\ [](/\ \A x \in {Prev, Last} :
                (x.op = "getOne" /\ x.status = 404)
                   => /\ x.resp = resError("Product not found")
                      /\ x.storeCalls = 1
                      /\ x.cacheCalls = 1
          /\ (/\ Prev.op = "getOne" /\ Prev.status = 404
              /\ GetOneOf(Last, parseInt(Prev.tok).n))
                => /\ Last.status = 404
                   /\ Last.storeCalls = 1)
    /\ [][\A s \in Slots :
             (req[s].pc \in {"g1_get", "g1_query"} /\ req'[s] /= req[s])
                => /\ cache' = cache
                   /\ table' = table]_vars

\* two getOne of an id with no row, one after the other: both were answered
\* 404 after a store query, and the cache holds nothing
C13_Witness ==
    /\ Prev.op = "getOne" /\ Prev.status = 404 /\ Prev.storeCalls = 1
    /\ GetOneOf(Last, parseInt(Prev.tok).n)
    /\ Last.status = 404 /\ Last.storeCalls = 1
    /\ cache = <<>>

\* C14: a getAll that missed the cache answers with all rows of the store
\* in ascending order of id and leaves exactly that array under
\* products:all; a getAll right after a getAll, with no key expired in
\* between, makes no store query and answers with the cached array, the
\* empty array included.
C14_GetAllHitAndMiss ==
    /\ \A x \in {Prev, Last} :
          (x.op = "getAll" /\ x.status = 200)
             => /\ x.resp.of = "array"
                /\ Ascending(x.resp.v)
    /\ (Quiet /\ Last.op = "getAll" /\ Last.storeCalls = 1)
          => /\ Last.status = 200
             /\ Last.resp = resJson(JsArray(selectAll(table)))
    /\ (Quiet /\ Last.op = "getAll" /\ ~expired)
          => /\ AllKey \in DOMAIN cache
             /\ cache[AllKey].value = JSONStringify(JsArray(selectAll(table)))
             /\ Last.resp = resJson(JSONParse(cache[AllKey].value))
    /\ (Prev.op = "getAll" /\ Last.op = "getAll" /\ ~Last.expired)
          => /\ Last.status = 200
             /\ Last.storeCalls = 0
             /\ Last.resp = Prev.resp

\* over an empty store, a getAll that queried the store and answered with
\* the empty array, then a getAll answered with the empty array from the
\* cache
C14_Witness ==
    /\ DOMAIN table = {}
    /\ Prev.op = "getAll" /\ Prev.storeCalls = 1 /\ Prev.resp.v = <<>>
    /\ Last.op = "getAll" /\ Last.storeCalls = 0 /\ Last.resp.v = <<>>
    /\ ~Last.expired

\* C15: when a cache call of an update or a remove failed, the store
\* mutation made before it stays: the row holds the patched values, or is
\* gone.  What the cache is left with are entries with a time-to-live, each
\* item entry being a row the store held.
C15_StoreMutationKeptOnCacheFailure ==
    /\ (Quiet /\ Last.op = "update" /\ Last.cacheErr)
          => LET n == pgInteger(Last.tok).n
             IN  /\ n \in DOMAIN table
                 /\ \A f \in DOMAIN Last.body :
                       table[n][f] = ColumnValue(f, Last.body[f])
    /\ (Quiet /\ Last.op = "remove" /\ Last.cacheErr)
          => parseInt(Last.tok).n \notin DOMAIN table
    /\ \A k \in DOMAIN cache : cache[k].ttl = DefaultTTL
    /\ \A n \in DOMAIN held :
          ItemKeyOfNumber(n) \in DOMAIN cache
             => \E row \in held[n] : Holds(ItemKeyOfNumber(n), rowJSON(row))

\* product 1 was cached, then removed by a request whose invalidation
\* failed: the row is gone and its entry is still cached
C15_Witness ==
    /\ Quiet
    /\ Last.op = "remove" /\ Last.cacheErr /\ ~Last.storeErr
    /\ 1 \notin DOMAIN table
    /\ ItemKeyOfNumber(1) \in DOMAIN cache

\* C16: the store query of an update sets the columns the validated patch
\* names to the values sent and leaves every other column of the row, the
\* id among them, and every other row as they were; every row is stored
\* under its own id.
C16_UpdateChangesOnlySuppliedFields ==
    /\ [](\A n \in DOMAIN table : table[n].id = n)
    /\ [][\A s \in Slots :
             (req[s].pc = "u_query" /\ req'[s].pc = "u_inval")
                => LET n     == pgInteger(req[s].tok).n
                       patch == req[s].body
                   IN  /\ DOMAIN table' = DOMAIN table
                       /\ \A m \in DOMAIN table \ {n} : table'[m] = table[m]
                       /\ \A f \in DOMAIN table[n] \ DOMAIN patch :
                             table'[n][f] = table[n][f]
                       /\ \A f \in DOMAIN patch :
                             table'[n][f] = ColumnValue(f, patch[f])
                       /\ "id" \notin DOMAIN patch]_vars

\* an update of product 1 that named the quantity alone succeeded: the row
\* has the new quantity, and the id and the name it had before
C16_Witness ==
    /\ Quiet
    /\ Last.op = "update" /\ Succeeded(Last)
    /\ DOMAIN Last.body = {"quantity"}
    /\ table[1].quantity = 7
    /\ table[1].id = 1
    /\ table[1].name = SampleTable[1].name

\* C17: a getOne whose path id is not a numeral, be it letters alone or
\* digits followed by letters, is answered 400 "Invalid product id" and
\* makes no cache call and no store query.
C17_NonNumericIdIsRejected ==
    (Last.op = "getOne" /\ ~AllDigits(Last.tok))
       => /\ Last.status = 400
          /\ Last.resp = resError("Invalid product id")
          /\ Last.cacheCalls = 0
          /\ Last.storeCalls = 0

\* C18: an update that succeeded on row n wrote its entry under
\* products:<n>, the key getOne(n) reads and remove(n) evicts: the key built
\* from the path is that key, and once the update is answered, with no key
\* expired since, products:<n> holds the updated row.
C18_UpdateUsesTheKeyGetOneReads ==
    (Succeeded(Last) /\ Last.op = "update")
       => /\ ItemKeyOfString(Last.tok) = ItemKeyOfNumber(RowOf(Last).id)
          /\ (Quiet /\ ~expired)
                => Holds(ItemKeyOfNumber(RowOf(Last).id), RowOf(Last))

\* C19: under any interleaving of getAll with create, update and remove,
\* once all requests have completed, products:all, if present, is the
\* store's current listing.
C19_QuiescentListingIsCurrent ==
    (Quiet /\ AllKey \in DOMAIN cache)
       => cache[AllKey].value = JSONStringify(JsArray(selectAll(table)))

\* C19 as amended: at every moment products:all, if present, is the JSON
\* text of a listing the store has had, now or earlier, in ascending order
\* of id.
C19_ListingIsSomeListingHeld ==
    AllKey \in DOMAIN cache
       => /\ \E rows \in listed : cache[AllKey].value = JSONStringify(JsArray(rows))
          /\ Ascending(cache[AllKey].value.v)

\* all requests have completed and products:all holds a listing the store
\* had before its last mutation
C19_Witness ==
    /\ Quiet
    /\ AllKey \in DOMAIN cache
    /\ cache[AllKey].value /= JSONStringify(JsArray(selectAll(table)))
    /\ \E rows \in listed : cache[AllKey].value = JSONStringify(JsArray(rows))

\* C20: the store query of an update or a remove whose id has no row ends
\* the request with 404 and leaves the table, the id sequence and the cache
\* as they were; such a request made one store query and no cache call.
C20_NotFoundLeavesStoreAndCache ==
    /\ [](\A x \in {Prev, Last} :
            (x.op \in {"update", "remove"} /\ x.status = 404)
               => /\ x.resp = resError("Product not found")
                  /\ x.storeCalls = 1
                  /\ x.cacheCalls = 0)
    /\ [][\A s \in Slots :
             (/\ req[s].pc \in {"u_query", "d_query"}
              /\ req'[s] /= req[s]
              /\ NoRow(req[s]))
                => /\ req'[s].pc = "idle"
                   /\ log'[2].status = 404
                   /\ table' = table
                   /\ nextId' = nextId
                   /\ cache' = cache]_vars

\* a product was removed, then an update that named it was answered 404;
\* no request has arrived since, and the entry an earlier update cached
\* under the item key of that request is still there
C20_Witness ==
    /\ Quiet
    /\ Prev.op = "remove" /\ Succeeded(Prev)
    /\ Last.op = "update" /\ Last.status = 404
    /\ pgInteger(Last.tok).n = RowOf(Prev).id
    /\ ItemKeyOfString(Last.tok) \in DOMAIN cache

-----------------------------------------------------------------------------
(* C21..C24 *)

\* C21: a create, update or remove makes its cache calls only after its
\* store query, and only when that query succeeded: a request whose store
\* query failed made no cache call, and no step of such a request up to and
\* including its store query changes the cache.
C21_StoreMutationPrecedesCacheCalls ==
    /\ [](/\ \A s \in Slots :
                (req[s].op \in Mutations /\ req[s].cacheCalls > 0)
                   => /\ req[s].storeCalls = 1
                      /\ ~req[s].storeErr
          /\ \A x \in {Prev, Last} :
                x.op \in Mutations
                   => /\ x.cacheCalls > 0 => (x.storeCalls = 1 /\ ~x.storeErr)
                      /\ x.storeErr => x.cacheCalls = 0)
    /\ [][\A s \in Slots :
             (/\ req[s].op \in Mutations
              /\ req[s].storeCalls = 0
              /\ req'[s] /= req[s])
                => cache' = cache]_vars

\* product 1 was read and cached, then an update of it met a failing store:
\* it made no cache call and the entry is still the one the read cached
C21_Witness ==
    /\ Quiet
    /\ Prev.op = "getOne" /\ Prev.status = 200
    /\ Last.op = "update" /\ Last.storeErr /\ Last.cacheCalls = 0
    /\ Holds(ItemKeyOfNumber(1), Prev.resp.v)

\* C22: connectWithRetry returns to start() only after a client.connect()
\* that succeeded: the app is created, and listens, only with a connected
\* cache client.
C22_ListensOnlyWhenConnected ==
    boot.pc \in {"create_app", "listening"} => boot.connected

\* C23: connectWithRetry calls client.connect() at most retries times and
\* never again after a call that succeeded; the waits it has made are
\* delay*1, delay*2, ... in this order, one after each failed attempt, all
\* of them made before the next attempt; and once called it returns or
\* throws.
C23_BoundedRetryTerminates ==
    /\ [](/\ boot.connects <= boot.retries
          /\ boot.waits = [k \in 1..Len(boot.waits) |-> boot.delay * k]
          /\ boot.pc = "connect"
                => /\ boot.connects = boot.i - 1
                   /\ Len(boot.waits) = boot.i - 1
          /\ boot.connected => Len(boot.waits) = boot.connects - 1
          /\ Len(boot.waits) \in {boot.connects - 1, boot.connects})
    /\ [][boot.connected => boot'.connects = boot.connects]_vars
    /\ (boot.pc = "connect") ~> (boot.pc \in {"create_app", "listening", "crashed"})

\* the third attempt succeeded after two that failed and the waits that
\* followed them
C23_Witness ==
    /\ boot.connected
    /\ boot.connects = 3
    /\ boot.waits = <<boot.delay, boot.delay * 2>>

\* C24: once ensureProductsTableAndData has returned, by the end of its
\* try block or by its catch, no client of the pool is checked out.
C24_StartupReleasesPoolClient ==
    boot.pc \notin {"pool_connect", "create_table", "count", "insert"}
       => boot.checkedOut = 0

====
